---- MODULE Spec2Model ----
(***************************************************************************)
(* Lane boundary tracking of src/graph.py: Graph.find_lane_pixels and the  *)
(* fits of Graph.fit_polynomial, called frame after frame.  One action per *)
(* block of the functions; the state is their arguments and locals.        *)
(*                                                                         *)
(* The hyper-parameters nwindows (15 in the source) and margin (100 in     *)
(* the source) are scaled down so that masks stay enumerable; min_pixels   *)
(* and the 10% drift threshold keep their source values.                   *)
(***************************************************************************)
EXTENDS Integers, Sequences, FiniteSets, TLC

VARIABLES binary_warped, last_left_base, last_right_base,
          pc, exc,
          leftx_base, rightx_base,
          prev_lane_dist, lane_dist_hist,
          leftx_current, rightx_current,
          left_lane_points, right_lane_points,
          window,
          win_y_low, win_y_high,
          win_xleft_low, win_xleft_high, win_xright_low, win_xright_high,
          l_found, r_found,
          avg_lane_dist,
          left_fit, right_fit

vars == <<binary_warped, last_left_base, last_right_base, pc, exc,
          leftx_base, rightx_base, prev_lane_dist, lane_dist_hist,
          leftx_current, rightx_current, left_lane_points, right_lane_points,
          window, win_y_low, win_y_high,
          win_xleft_low, win_xleft_high, win_xright_low, win_xright_high,
          l_found, r_found, avg_lane_dist, left_fit, right_fit>>

band_locals == <<win_y_low, win_y_high,
                 win_xleft_low, win_xleft_high, win_xright_low, win_xright_high,
                 l_found, r_found>>

fit_locals == <<left_fit, right_fit>>

track_locals == <<prev_lane_dist, lane_dist_hist, leftx_current, rightx_current,
                  left_lane_points, right_lane_points, window>>

----------------------------------------------------------------------------
(* Bounds of the model *)

\* number of sliding windows (scaled; 15 in the source)
nwindows == 2
\* half width of a search window (scaled; 100 in the source)
margin == 2
\* at most MaxLit nonzero pixels in a mask of the dense family
MaxLit == 2
\* width of the wide masks used to exercise the 10% drift threshold
WideW == 22

----------------------------------------------------------------------------
(* Program constants and plain helpers *)

\* min_pixels = 10*255
min_pixels == 10 * 255

\* a pixel that alone passes min_pixels, and one that alone does not
Bright == min_pixels + 1
Dim == min_pixels

\* Python None for an optional int: <<>> is None, <<v>> is the int v
None == <<>>
Some(v) == <<v>>
IsNone(o) == o = <<>>
Val(o) == o[1]

Abs(n) == IF n < 0 THEN -n ELSE n
Max2(a, b) == IF a < b THEN b ELSE a
Min2(a, b) == IF a < b THEN a ELSE b

\* int(n / 2): Python's int() truncates toward zero
IntHalf(n) == IF n >= 0 THEN n \div 2 ELSE -((-n) \div 2)

\* the index a slice bound i denotes on an axis of length n (numpy/Python)
SliceIndex(i, n) == IF i < 0 THEN Max2(i + n, 0) ELSE Min2(i, n)

\* binary_warped.shape
Height(bw) == bw.h
Width(bw) == bw.w

\* sum of column x over rows y0 .. y1-1
RECURSIVE ColSum(_, _, _, _)
ColSum(bw, y0, y1, x) ==
    IF y0 >= y1 THEN 0 ELSE bw.at[<<y0, x>>] + ColSum(bw, y0 + 1, y1, x)

\* np.sum(binary_warped[ylo:yhi, xlo:xhi], axis=0), as a sequence
AreaHist(bw, ylo, yhi, xlo, xhi) ==
    LET ys == SliceIndex(ylo, Height(bw))
        ye == SliceIndex(yhi, Height(bw))
        xs == SliceIndex(xlo, Width(bw))
        xe == SliceIndex(xhi, Width(bw))
    IN  [k \in 1 .. Max2(xe - xs, 0) |-> ColSum(bw, ys, ye, xs + k - 1)]

\* np.max of a non-empty sequence
RECURSIVE SeqMax(_)
SeqMax(s) ==
    IF Len(s) = 1 THEN s[1] ELSE Max2(s[1], SeqMax(Tail(s)))

\* np.argmax: 0-based index of the first maximum of a non-empty sequence
ArgMax(s) ==
    (CHOOSE k \in 1 .. Len(s) :
        /\ s[k] = SeqMax(s)
        /\ \A j \in 1 .. (k - 1) : s[j] # s[k]) - 1

RECURSIVE SeqSum(_)
SeqSum(s) == IF s = <<>> THEN 0 ELSE s[1] + SeqSum(Tail(s))

\* np.average of a list of ints, kept exact as numerator / denominator
Average(s) == [num |-> SeqSum(s), den |-> Len(s)]

----------------------------------------------------------------------------
(* np.absolute((last - base) / base) > 0.1 with base a numpy integer:      *)
(* division by zero yields inf (numerator nonzero) or nan (numerator 0)    *)
(* with a warning, never an exception                                      *)
\* a threshold of 20% instead of 10%
DriftExceedsFifth(last, base) ==
    IF base = 0 THEN last # 0
    ELSE 5 * Abs(last - base) > Abs(base)

\* a guard that skips the division when the new peak is 0
DriftExceedsSkipZero(last, base) ==
    IF base = 0 THEN FALSE
    ELSE 10 * Abs(last - base) > Abs(base)

DriftExceeds(last, base) ==
    IF base = 0 THEN last # 0
    ELSE 10 * Abs(last - base) > Abs(base)


----------------------------------------------------------------------------
(* Lines 373-382: histogram of the bottom half and its two peaks *)

\* np.sum(binary_warped[binary_warped.shape[0] // 2:, :], axis=0)
Histogram(bw) ==
    AreaHist(bw, Height(bw) \div 2, Height(bw), 0, Width(bw))

\* histogram.shape[0] // 2
Midpoint(bw) == Width(bw) \div 2

\* np.argmax(histogram[:midpoint])
LeftPeak(bw) == ArgMax(SubSeq(Histogram(bw), 1, Midpoint(bw)))

\* the peak of the right half without the shift by the midpoint
RightPeakUnshifted(bw) ==
    ArgMax(SubSeq(Histogram(bw), Midpoint(bw) + 1, Width(bw)))

\* the peak of the right half shifted by the width
RightPeakByWidth(bw) ==
    ArgMax(SubSeq(Histogram(bw), Midpoint(bw) + 1, Width(bw))) + Width(bw)

\* np.argmax(histogram[midpoint:]) + midpoint
RightPeak(bw) ==
    ArgMax(SubSeq(Histogram(bw), Midpoint(bw) + 1, Width(bw))) + Midpoint(bw)

\* np.argmax raises ValueError on an empty half (the left half when W < 2)
PeaksRaise(bw) == Midpoint(bw) = 0

(* Lines 387-390: drift guard of the left base *)
ValidLeft(bw, last_left) ==
    IF IsNone(last_left) THEN LeftPeak(bw)
    ELSE IF DriftExceeds(Val(last_left), LeftPeak(bw)) THEN Val(last_left)
    ELSE LeftPeak(bw)

(* Lines 391-394: drift guard of the right base; the delta is taken from   *)
(* last_left_base                                                          *)
ValidRight(bw, last_left, last_right) ==
    IF IsNone(last_right) THEN RightPeak(bw)
    ELSE IF DriftExceeds(Val(last_left), RightPeak(bw)) THEN Val(last_right)
    ELSE RightPeak(bw)

\* line 392 evaluates None - rightx_base: TypeError
ValidRightRaises(last_left, last_right) ==
    ~IsNone(last_right) /\ IsNone(last_left)

----------------------------------------------------------------------------
(* Lines 423-477: one sliding window (band) *)

\* binary_warped.shape[0] // nwindows
WindowHeight(bw) == Height(bw) \div nwindows

\* lines 425, 433-434
WinYLow(bw, w) == Max2(Height(bw) - (w + 1) * WindowHeight(bw), 0)
\* line 426
WinYHigh(bw, w) == Height(bw) - w * WindowHeight(bw)
\* lines 427, 431-432
WinXLeftLow(cur) == Max2(cur - margin, 0)
\* line 428
WinXLeftHigh(cur) == cur + margin
\* line 429: no clamp on the right side
WinXRightLow(cur) == cur - margin
\* line 430
WinXRightHigh(cur) == cur + margin

\* a candidate accepted already when its peak equals min_pixels
CandidateAtLeast(area_hist, x_low) ==
    IF SeqMax(area_hist) >= min_pixels /\ ArgMax(area_hist) + x_low # x_low
    THEN Some(ArgMax(area_hist) + x_low)
    ELSE None

\* lines 442-445 / 446-449 and 453-456: the candidate of one side, None when
\* the peak does not pass min_pixels or sits on the low boundary
Candidate(area_hist, x_low) ==
    IF SeqMax(area_hist) > min_pixels /\ ArgMax(area_hist) + x_low # x_low
    THEN Some(ArgMax(area_hist) + x_low)
    ELSE None

\* no gap-filling: a side that is not found is guessed like in a band that
\* finds neither
ResolveNoGapFill(l, r, xl_low, xl_high, xr_low, xr_high, dist) ==
    IF ~IsNone(l) /\ ~IsNone(r)
    THEN [l |-> Val(l), r |-> Val(r), dist |-> Val(r) - Val(l), both |-> TRUE]
    ELSE [l |-> IF IsNone(l) THEN IntHalf(xl_low + xl_high) ELSE Val(l),
          r |-> IF IsNone(r) THEN IntHalf(xr_low + xr_high) ELSE Val(r),
          dist |-> dist, both |-> FALSE]

\* the guess of a band that finds neither side taken at the low edge
ResolveGuessLow(l, r, xl_low, xl_high, xr_low, xr_high, dist) ==
    IF ~IsNone(l) /\ ~IsNone(r)
    THEN [l |-> Val(l), r |-> Val(r), dist |-> Val(r) - Val(l), both |-> TRUE]
    ELSE IF IsNone(l) /\ IsNone(r)
    THEN [l |-> xl_low, r |-> xr_low, dist |-> dist, both |-> FALSE]
    ELSE IF IsNone(l)
    THEN [l |-> Val(r) - dist, r |-> Val(r), dist |-> dist, both |-> FALSE]
    ELSE [l |-> Val(l), r |-> Val(l) + dist, dist |-> dist, both |-> FALSE]

\* a band that finds both sides does not sample their distance
ResolveKeepDist(l, r, xl_low, xl_high, xr_low, xr_high, dist) ==
    IF ~IsNone(l) /\ ~IsNone(r)
    THEN [l |-> Val(l), r |-> Val(r), dist |-> dist, both |-> TRUE]
    ELSE IF IsNone(l) /\ IsNone(r)
    THEN [l |-> IntHalf(xl_low + xl_high), r |-> IntHalf(xr_low + xr_high),
          dist |-> dist, both |-> FALSE]
    ELSE IF IsNone(l)
    THEN [l |-> Val(r) - dist, r |-> Val(r), dist |-> dist, both |-> FALSE]
    ELSE [l |-> Val(l), r |-> Val(l) + dist, dist |-> dist, both |-> FALSE]

\* lines 458-468: the x of both sides of the band and the lane distance
\* carried on, from the two candidates
Resolve(l, r, xl_low, xl_high, xr_low, xr_high, dist) ==
    IF ~IsNone(l) /\ ~IsNone(r)
    THEN [l |-> Val(l), r |-> Val(r), dist |-> Val(r) - Val(l), both |-> TRUE]
    ELSE IF IsNone(l) /\ IsNone(r)
    THEN [l |-> IntHalf(xl_low + xl_high), r |-> IntHalf(xr_low + xr_high),
          dist |-> dist, both |-> FALSE]
    ELSE IF IsNone(l)
    THEN [l |-> Val(r) - dist, r |-> Val(r), dist |-> dist, both |-> FALSE]
    ELSE [l |-> Val(l), r |-> Val(l) + dist, dist |-> dist, both |-> FALSE]

\* the low edge of the band instead of its middle
YIndexLow(y_low, y_high) == y_low

\* line 450
YIndex(y_low, y_high) == IntHalf(y_low + y_high)

----------------------------------------------------------------------------
(* Inputs: the masks and previous bases a caller may pass *)

\* heights of the small masks: below and at the nwindows rows the bands need
Heights == {nwindows - 1, nwindows}
\* height of the tall masks: bands of two rows and a row left over
TallH == 2 * nwindows + 1
\* widths: a single column, and the widths just below and at W = 2*margin
Widths == {1, 2 * margin - 1, 2 * margin}

Positions(h, w) == (0 .. h - 1) \X (0 .. w - 1)

\* the subsets of P with at most k elements
RECURSIVE UpTo(_, _)
UpTo(P, k) ==
    IF k = 0 THEN {{}}
    ELSE LET S == UpTo(P, k - 1)
         IN  S \cup {T \cup {p} : T \in S, p \in P}

\* the mask of shape (h, w) whose nonzero pixels are those of v
MaskOf(h, w, v) ==
    [h |-> h, w |-> w,
     at |-> [p \in Positions(h, w) |-> IF p \in DOMAIN v THEN v[p] ELSE 0]]

\* small masks: at most MaxLit Bright pixels, or a single Dim pixel
SmallMasks(h, w) ==
    {MaskOf(h, w, [p \in S |-> Bright]) : S \in UpTo(Positions(h, w), MaxLit)}
    \cup {MaskOf(h, w, [p \in {q} |-> Dim]) : q \in Positions(h, w)}

\* tall masks: one vertical band at column c over the rows t .. b
TallMasks(h, w) ==
    {MaskOf(h, w, [p \in (t .. b) \X {c} |-> v]) :
        t \in 0 .. h - 1, b \in 0 .. h - 1, c \in 0 .. w - 1, v \in {Dim, Bright}}

\* wide masks: at most one Bright pixel, in the bottom row
WideMasks(h, w) ==
    {MaskOf(h, w, [p \in S |-> Bright]) : S \in UpTo({h - 1} \X (0 .. w - 1), 1)}

\* the masks of one width (a stream keeps its width)
MasksOfWidth(w) ==
    IF w = WideW THEN WideMasks(nwindows, w)
    ELSE UNION {SmallMasks(h, w) : h \in Heights}
         \cup (IF w = 2 * margin THEN TallMasks(TallH, w) ELSE {})

\* last_left_base / last_right_base: None or an int in [0, W)
Bases(w) == {None} \cup {Some(b) : b \in 0 .. w - 1}

----------------------------------------------------------------------------
(* The state machine *)

\* the locals of find_lane_pixels before the call binds them
Unbound ==
    /\ leftx_base = 0
    /\ rightx_base = 0
    /\ prev_lane_dist = 0
    /\ lane_dist_hist = <<>>
    /\ leftx_current = 0
    /\ rightx_current = 0
    /\ left_lane_points = <<>>
    /\ right_lane_points = <<>>
    /\ window = 0
    /\ win_y_low = 0
    /\ win_y_high = 0
    /\ win_xleft_low = 0
    /\ win_xleft_high = 0
    /\ win_xright_low = 0
    /\ win_xright_high = 0
    /\ l_found = FALSE
    /\ r_found = FALSE
    /\ avg_lane_dist = [num |-> 0, den |-> 1]
    /\ left_fit = <<>>
    /\ right_fit = <<>>

\* a caller between two frames of a stream of width w, holding the previous
\* bases ll and lr and no frame
Idle(w, ll, lr) ==
    /\ binary_warped = MaskOf(0, w, <<>>)
    /\ last_left_base = ll
    /\ last_right_base = lr
    /\ pc = "idle"
    /\ exc = "none"
    /\ Unbound

\* any call: each previous base given or not
Init ==
    \E w \in Widths \cup {WideW} :
        \E ll \in Bases(w), lr \in Bases(w) : Idle(w, ll, lr)

\* first frame of a session: no previous bases
SessionInit ==
    \E w \in Widths \cup {WideW} : Idle(w, None, None)

(* Lines 337-339, 366: the call of find_lane_pixels on the next mask of    *)
(* the stream                                                              *)
Call ==
    /\ pc = "idle"
    /\ \E bw \in MasksOfWidth(Width(binary_warped)) : binary_warped' = bw
    /\ pc' = "bases"
    /\ UNCHANGED <<last_left_base, last_right_base, exc, leftx_base,
                   rightx_base, track_locals, band_locals, avg_lane_dist,
                   fit_locals>>

(* Lines 373-420: histogram peaks, drift guards, seeds of the tracker *)
FindBases ==
    /\ pc = "bases"
    /\ IF PeaksRaise(binary_warped)
       THEN /\ pc' = "raised"
            /\ exc' = "ValueError"
            /\ UNCHANGED <<leftx_base, rightx_base, track_locals>>
       ELSE IF ValidRightRaises(last_left_base, last_right_base)
       THEN /\ pc' = "raised"
            /\ exc' = "TypeError"
            /\ leftx_base' = ValidLeft(binary_warped, last_left_base)
            /\ rightx_base' = RightPeak(binary_warped)
            /\ UNCHANGED track_locals
       ELSE LET lb == ValidLeft(binary_warped, last_left_base)
                rb == ValidRight(binary_warped, last_left_base, last_right_base)
            IN  /\ leftx_base' = lb
                /\ rightx_base' = rb
                /\ prev_lane_dist' = rb - lb
                /\ lane_dist_hist' = <<rb - lb>>
                /\ leftx_current' = lb
                /\ rightx_current' = rb
                /\ left_lane_points' = <<>>
                /\ right_lane_points' = <<>>
                /\ window' = 0
                /\ pc' = "windows"
                /\ exc' = "none"
    /\ UNCHANGED <<binary_warped, last_left_base, last_right_base,
                   band_locals, avg_lane_dist, fit_locals>>

(* Lines 423-477: the body of the loop for the band `window` *)
Band ==
    /\ pc = "windows"
    /\ window < nwindows
    /\ LET y_low == WinYLow(binary_warped, window)
           y_high == WinYHigh(binary_warped, window)
           xl_low == WinXLeftLow(leftx_current)
           xl_high == WinXLeftHigh(leftx_current)
           xr_low == WinXRightLow(rightx_current)
           xr_high == WinXRightHigh(rightx_current)
           l_area_hist == AreaHist(binary_warped, y_low, y_high, xl_low, xl_high)
           r_area_hist == AreaHist(binary_warped, y_low, y_high, xr_low, xr_high)
       IN  /\ win_y_low' = y_low
           /\ win_y_high' = y_high
           /\ win_xleft_low' = xl_low
           /\ win_xleft_high' = xl_high
           /\ win_xright_low' = xr_low
           /\ win_xright_high' = xr_high
           /\ IF Len(l_area_hist) = 0 \/ Len(r_area_hist) = 0
              THEN \* np.max of an empty array raises ValueError
                   /\ pc' = "raised"
                   /\ exc' = "ValueError"
                   /\ UNCHANGED <<l_found, r_found, track_locals>>
              ELSE LET l == Candidate(l_area_hist, xl_low)
                       r == Candidate(r_area_hist, xr_low)
                       res == Resolve(l, r, xl_low, xl_high, xr_low, xr_high,
                                      prev_lane_dist)
                       y_index == YIndex(y_low, y_high)
                   IN  /\ l_found' = ~IsNone(l)
                       /\ r_found' = ~IsNone(r)
                       /\ prev_lane_dist' = res.dist
                       /\ lane_dist_hist' =
                              IF res.both THEN Append(lane_dist_hist, res.dist)
                              ELSE lane_dist_hist
                       /\ left_lane_points' =
                              Append(left_lane_points, <<res.l, y_index>>)
                       /\ right_lane_points' =
                              Append(right_lane_points, <<res.r, y_index>>)
                       /\ leftx_current' = res.l
                       /\ rightx_current' = res.r
                       /\ window' = window + 1
                       /\ UNCHANGED <<pc, exc>>
    /\ UNCHANGED <<binary_warped, last_left_base, last_right_base,
                   leftx_base, rightx_base, avg_lane_dist, fit_locals>>

(* Lines 488-489: average lane distance and return *)
Return ==
    /\ pc = "windows"
    /\ window = nwindows
    /\ avg_lane_dist' = Average(lane_dist_hist)
    /\ pc' = "returned"
    /\ UNCHANGED <<binary_warped, last_left_base, last_right_base, exc,
                   leftx_base, rightx_base, track_locals, band_locals,
                   fit_locals>>

\* a name of fit_polynomial that no assignment has bound yet
Unassigned == <<>>

\* np.polyfit(points_y, points_x, deg=2): the quadratic fitted to the points
\* (kept symbolic, as the fit of these points)
PolyFit(points) == <<points>>

\* lines 341-345 / 346-350: the fit of one side, assigned only with 3 points
\* or more
FitOf(points) ==
    IF Len(points) >= 3 THEN PolyFit(points) ELSE Unassigned

(* Lines 341-363: the fits of fit_polynomial on the points returned.  A    *)
(* name left unassigned raises UnboundLocalError at line 355 or 356, which *)
(* `except TypeError` does not catch                                       *)
Fit ==
    /\ pc = "returned"
    /\ left_fit' = FitOf(left_lane_points)
    /\ right_fit' = FitOf(right_lane_points)
    /\ IF FitOf(left_lane_points) = Unassigned
          \/ FitOf(right_lane_points) = Unassigned
       THEN pc' = "fit_raised" /\ exc' = "UnboundLocalError"
       ELSE pc' = "fitted" /\ exc' = "none"
    /\ UNCHANGED <<binary_warped, last_left_base, last_right_base,
                   leftx_base, rightx_base, track_locals, band_locals,
                   avg_lane_dist>>

(* The caller between frames: the returned bases are kept as the previous  *)
(* bases of the next frame, everything else of the frame is dropped        *)
NextFrame ==
    /\ pc \in {"returned", "fitted"}
    /\ binary_warped' = MaskOf(0, Width(binary_warped), <<>>)
    /\ last_left_base' = Some(leftx_base)
    /\ last_right_base' = Some(rightx_base)
    /\ pc' = "idle"
    /\ exc' = "none"
    /\ leftx_base' = 0
    /\ rightx_base' = 0
    /\ prev_lane_dist' = 0
    /\ lane_dist_hist' = <<>>
    /\ leftx_current' = 0
    /\ rightx_current' = 0
    /\ left_lane_points' = <<>>
    /\ right_lane_points' = <<>>
    /\ window' = 0
    /\ win_y_low' = 0
    /\ win_y_high' = 0
    /\ win_xleft_low' = 0
    /\ win_xleft_high' = 0
    /\ win_xright_low' = 0
    /\ win_xright_high' = 0
    /\ l_found' = FALSE
    /\ r_found' = FALSE
    /\ avg_lane_dist' = [num |-> 0, den |-> 1]
    /\ left_fit' = <<>>
    /\ right_fit' = <<>>

Next == Call \/ FindBases \/ Band \/ Return \/ Fit \/ NextFrame

Spec == Init /\ [][Next]_vars

SessionSpec == SessionInit /\ [][Next]_vars

----------------------------------------------------------------------------
(* Vocabulary of the properties *)

\* the bases have been located and validated (lines 373-394 ran through);
\* a later raise comes from a band
Located ==
    \/ pc \in {"windows", "returned"}
    \/ pc = "raised" /\ lane_dist_hist # <<>>

\* the left drift guard (lines 387-390) ran through
LeftValidated ==
    \/ Located
    \/ pc = "raised" /\ exc = "TypeError"

\* the call raised while locating the bases (lines 373-394)
RaisedInBases == pc = "raised" /\ lane_dist_hist = <<>>

\* the loop body ran for at least one band, to its end or to a raise
InBand ==
    \/ pc \in {"windows", "returned"} /\ window >= 1
    \/ pc = "raised" /\ lane_dist_hist # <<>>

\* a band ran to its end; the band locals are those of band window - 1
BandDone == pc \in {"windows", "returned"} /\ window >= 1

\* the nonzero pixels of the mask
Lit(bw) == {p \in Positions(Height(bw), Width(bw)) : bw.at[p] # 0}

\* the nonzero pixels form one vertical band at column c that reaches into
\* the bottom half
VBandAt(bw, c) ==
    /\ Lit(bw) # {}
    /\ \A p \in Lit(bw) : p[2] = c /\ bw.at[p] > 0
    /\ \E p \in Lit(bw) : p[1] >= Height(bw) \div 2

NoPrevious == IsNone(last_left_base) /\ IsNone(last_right_base)

\* the mask meets the input contract W >= 2*margin, H >= nwindows
InContract ==
    /\ Width(binary_warped) >= 2 * margin
    /\ Height(binary_warped) >= nwindows

\* the claimed drift rule: |previous - new| / new > 0.10, for new > 0
Over10Percent(previous, new) == 100 * Abs(previous - new) > 10 * new

Last(s) == s[Len(s)]

----------------------------------------------------------------------------
(* C1: with no previous bases, a mask whose only nonzero pixels are one    *)
(* vertical band at column c reaching into the bottom half gives           *)
(* leftx_base = c when c < W//2 and rightx_base = c when c >= W//2.        *)
C1_BandBase ==
    (Located /\ NoPrevious) =>
        \A c \in 0 .. Width(binary_warped) - 1 :
            VBandAt(binary_warped, c) =>
                IF c < Width(binary_warped) \div 2
                THEN leftx_base = c
                ELSE rightx_base = c

\* a call returned for a tall mask with a band in the right half, off the
\* midpoint, and for one with a band in the left half, off column 0
C1_Witness ==
    /\ pc = "returned"
    /\ NoPrevious
    /\ Height(binary_warped) = TallH
    /\ \E c \in 1 .. Width(binary_warped) - 1 :
        /\ VBandAt(binary_warped, c)
        /\ c # Width(binary_warped) \div 2
        /\ Cardinality(Lit(binary_warped)) >= 2

(* C2: left drift guard.  With a previous left base and a nonzero new      *)
(* peak, the validated left base is the previous one if                    *)
(* |previous - new| / new > 0.10 and the new peak otherwise; without a     *)
(* previous left base it is the new peak.                                  *)
C2_LeftDrift ==
    LeftValidated =>
        LET new == LeftPeak(binary_warped)
        IN  IF IsNone(last_left_base) THEN leftx_base = new
            ELSE new # 0 =>
                   leftx_base = IF Over10Percent(Val(last_left_base), new)
                                THEN Val(last_left_base)
                                ELSE new

\* a new peak within 10% of a different previous base was accepted
C2_Witness ==
    /\ LeftValidated
    /\ ~IsNone(last_left_base)
    /\ LeftPeak(binary_warped) # 0
    /\ Val(last_left_base) # LeftPeak(binary_warped)
    /\ leftx_base = LeftPeak(binary_warped)

(* C3: right drift guard as claimed: with a previous right base, the       *)
(* validated right base is the previous right base if                      *)
(* |previousRight - newRight| / newRight > 0.10 and the new peak           *)
(* otherwise, whatever the previous left base (stated for the masks of the *)
(* input contract).                                                        *)
C3_RightOwnPrevious ==
    (Located /\ InContract /\ ~IsNone(last_right_base)) =>
        LET new == RightPeak(binary_warped)
        IN  rightx_base = IF Over10Percent(Val(last_right_base), new)
                          THEN Val(last_right_base)
                          ELSE new

(* C4: a new peak at column 0 does not make the validation of that side    *)
(* fail; the validated base of the side is the previous base if one was    *)
(* supplied and 0 otherwise.  A raise while locating the bases of a mask   *)
(* of width >= 2 is never one of the division: it is the TypeError of      *)
(* line 392, which reads an absent last_left_base.                         *)
C4_ZeroPeak ==
    /\ (LeftValidated /\ LeftPeak(binary_warped) = 0) =>
           leftx_base = IF IsNone(last_left_base) THEN 0
                        ELSE Val(last_left_base)
    /\ (Located /\ RightPeak(binary_warped) = 0) =>
           rightx_base = IF IsNone(last_right_base) THEN 0
                         ELSE Val(last_right_base)
    /\ (RaisedInBases /\ Width(binary_warped) >= 2) =>
           /\ exc = "TypeError"
           /\ IsNone(last_left_base) /\ ~IsNone(last_right_base)

\* the left peak is column 0 and a nonzero previous left base was kept
C4_Witness ==
    /\ Located
    /\ LeftPeak(binary_warped) = 0
    /\ ~IsNone(last_left_base)
    /\ Val(last_left_base) # 0
    /\ leftx_base = Val(last_left_base)

(* C5: in a session (first frame without previous bases, every later frame *)
(* with the bases the frame before returned) every returned base is an     *)
(* integer in [0, W).                                                      *)
C5_BasesInRange ==
    pc = "returned" =>
        /\ leftx_base \in 0 .. Width(binary_warped) - 1
        /\ rightx_base \in 0 .. Width(binary_warped) - 1

\* a later frame of a session returned, its drift guard having kept the
\* previous left base against a different new peak
C5_Witness ==
    /\ pc = "returned"
    /\ ~IsNone(last_left_base)
    /\ ~IsNone(last_right_base)
    /\ leftx_base = Val(last_left_base)
    /\ leftx_base # LeftPeak(binary_warped)

(* C6: for H >= nwindows a completed call returns exactly nwindows points  *)
(* per side, bottom-to-top: the point of band i has y in the middle of     *)
(* band i's y-range, and y strictly decreases with the band index.         *)
C6_Points ==
    (pc = "returned" /\ Height(binary_warped) >= nwindows) =>
        /\ Len(left_lane_points) = nwindows
        /\ Len(right_lane_points) = nwindows
        /\ \A i \in 0 .. nwindows - 1 :
            LET H == Height(binary_warped)
                bandHeight == H \div nwindows
                yLow == Max2(0, H - (i + 1) * bandHeight)
                yHigh == H - i * bandHeight
            IN  /\ left_lane_points[i + 1][2] = (yLow + yHigh) \div 2
                /\ right_lane_points[i + 1][2] = (yLow + yHigh) \div 2
                /\ i > 0 => left_lane_points[i + 1][2] < left_lane_points[i][2]

\* a call with previous bases returned for a tall mask (bands of two rows)
C6_Witness ==
    /\ pc = "returned"
    /\ Height(binary_warped) = TallH
    /\ ~IsNone(last_left_base)
    /\ Lit(binary_warped) # {}

\* the x of the left and of the right point of the band that just ended
LeftX == left_lane_points[window][1]
RightX == right_lane_points[window][1]

\* leftx_current and rightx_current as they were when the band started
\* (line 428 and line 430 add margin to them, unclamped)
LeftCurrentBefore == win_xleft_high - margin
RightCurrentBefore == win_xright_high - margin

\* no nonzero pixel in the right half of the mask
RightHalfEmpty(bw) == \A p \in Lit(bw) : p[2] < Width(bw) \div 2

(* C7: gap-filling.  In a band where exactly one side is found the other   *)
(* side's point lies exactly lastKnownWidth from it, lastKnownWidth being  *)
(* the most recent sample of the width history; hence with an empty right  *)
(* half, right x - left x is lastKnownWidth in every band that finds the   *)
(* left side.                                                              *)
C7_GapFill ==
    /\ (BandDone /\ l_found # r_found) =>
           /\ RightX - LeftX = Last(lane_dist_hist)
           /\ l_found => RightX = LeftX + Last(lane_dist_hist)
           /\ r_found => LeftX = RightX - Last(lane_dist_hist)
    /\ (BandDone /\ l_found /\ RightHalfEmpty(binary_warped)) =>
           RightX - LeftX = Last(lane_dist_hist)

\* the second band found the left side only, the right half being empty
C7_Witness ==
    /\ BandDone
    /\ window = 2
    /\ l_found /\ ~r_found
    /\ RightHalfEmpty(binary_warped)
    /\ RightX # RightCurrentBefore

(* C8 as claimed: in a band where neither side is found the left x equals  *)
(* leftCurrent and the right x equals rightCurrent, also when the low edge *)
(* of the left range is clamped (stated for the masks of the input         *)
(* contract).                                                              *)
C8_NoShift ==
    (BandDone /\ InContract /\ ~l_found /\ ~r_found) =>
        /\ LeftX = LeftCurrentBefore
        /\ RightX = RightCurrentBefore

(* C8 amended: in a band where neither side is found the right x equals    *)
(* rightCurrent and the left x is the midpoint int((lo + hi) / 2) of its   *)
(* clamped range lo = max(0, leftCurrent - margin), hi = leftCurrent +     *)
(* margin: leftCurrent when leftCurrent >= margin - 1, and a column to the *)
(* right of leftCurrent when leftCurrent < margin - 1.                     *)
C8_Midpoint ==
    (BandDone /\ ~l_found /\ ~r_found) =>
        /\ RightX = RightCurrentBefore
        /\ LeftX = IntHalf(Max2(0, LeftCurrentBefore - margin)
                           + LeftCurrentBefore + margin)
        /\ LeftCurrentBefore >= margin - 1 => LeftX = LeftCurrentBefore
        /\ LeftCurrentBefore < margin - 1 => LeftX > LeftCurrentBefore

\* neither side found with the left range clamped: the left guess moved
C8_Witness ==
    /\ BandDone
    /\ ~l_found /\ ~r_found
    /\ LeftCurrentBefore < margin
    /\ LeftX # LeftCurrentBefore
    /\ RightX = RightCurrentBefore

\* the state part of C9
C9_Inv ==
    /\ (pc = "windows" /\ window = 0) =>
           lane_dist_hist = <<rightx_base - leftx_base>>
    /\ Located =>
           /\ Len(lane_dist_hist) >= 1
           /\ lane_dist_hist[1] = rightx_base - leftx_base
           /\ prev_lane_dist = Last(lane_dist_hist)
    /\ pc = "returned" =>
           /\ avg_lane_dist.den = Len(lane_dist_hist)
           /\ avg_lane_dist.num = SeqSum(lane_dist_hist)

\* the step part of C9
C9_Step ==
    (Located /\ pc' # "idle") =>
        IF pc' = "windows" /\ window' = window + 1
        THEN lane_dist_hist' =
                 IF l_found' /\ r_found'
                 THEN Append(lane_dist_hist, rightx_current' - leftx_current')
                 ELSE lane_dist_hist
        ELSE lane_dist_hist' = lane_dist_hist

(* C9: the width history of a frame starts as the single seed              *)
(* rightx_base - leftx_base, only grows, gains exactly the sample          *)
(* right - left for each band that finds both sides and nothing for any    *)
(* other band, its last element is the value used for gap-filling, and the *)
(* average returned is the mean of all its samples.                        *)
C9_WidthHistory == [] C9_Inv /\ [][C9_Step]_vars

\* a frame returned whose history gained a sample differing from the seed
C9_Witness ==
    /\ pc = "returned"
    /\ Len(lane_dist_hist) >= 2
    /\ Last(lane_dist_hist) # lane_dist_hist[1]
    /\ ~(l_found /\ r_found)

(* C10 as claimed: for every band and both sides, yLow = max(0, H -        *)
(* (i+1)*bandHeight), yHigh = H - i*bandHeight, 0 <= yLow < yHigh <= H,    *)
(* the low x edge is max(0, current - margin), and no window edge used to  *)
(* index the mask is negative (stated for the masks of the input contract  *)
(* on the first frame of a session).                                       *)
C10_WindowBounds ==
    (InBand /\ InContract /\ NoPrevious) =>
        LET H == Height(binary_warped)
            i == IF pc = "raised" THEN window ELSE window - 1
            bandHeight == H \div nwindows
        IN  /\ win_y_low = Max2(0, H - (i + 1) * bandHeight)
            /\ win_y_high = H - i * bandHeight
            /\ 0 <= win_y_low /\ win_y_low < win_y_high /\ win_y_high <= H
            /\ win_xleft_low = Max2(0, LeftCurrentBefore - margin)
            /\ win_xright_low = Max2(0, RightCurrentBefore - margin)
            /\ win_xleft_low >= 0 /\ win_xleft_high >= 0
            /\ win_xright_low >= 0 /\ win_xright_high >= 0

\* the previous bases are a pair or both absent
PairOrAbsent == IsNone(last_left_base) <=> IsNone(last_right_base)

(* C11 as claimed: for every mask of the input contract and every previous *)
(* base pair in [0, W) or absent, find_lane_pixels and fit_polynomial run  *)
(* to completion and return nwindows points per side: no band raises, and  *)
(* with the 3 points or more per side that nwindows >= 3 gives, neither    *)
(* does the fit.                                                           *)
C11_NoException ==
    (InContract /\ PairOrAbsent) =>
        /\ pc # "raised"
        /\ pc \in {"returned", "fitted", "fit_raised"} =>
               /\ Len(left_lane_points) = nwindows
               /\ Len(right_lane_points) = nwindows
        /\ nwindows >= 3 => pc # "fit_raised"

RegionCols(lo, hi) ==
    SliceIndex(lo, Width(binary_warped))
        .. SliceIndex(hi, Width(binary_warped)) - 1

\* the sum of column c of the mask over the rows of the band that just ended
BandColSum(c) == ColSum(binary_warped, win_y_low, win_y_high, c)

\* the first column of a non-empty region whose sum is the maximum
PeakCol(cols) ==
    CHOOSE c \in cols :
        \A d \in cols : /\ BandColSum(d) <= BandColSum(c)
                        /\ d < c => BandColSum(d) < BandColSum(c)

\* the acceptance rule as claimed, for the region lo:hi
Accepted(lo, hi) ==
    /\ BandColSum(PeakCol(RegionCols(lo, hi))) > min_pixels
    /\ PeakCol(RegionCols(lo, hi)) # lo

(* C13: in every band and for each side, the side is found if and only if  *)
(* the maximum column sum of its search region is strictly greater than    *)
(* min_pixels and the full-mask column of that maximum differs from the    *)
(* region's low x boundary; the x of a found side is the full-mask column  *)
(* of that maximum (stated for the masks of the input contract, whose      *)
(* regions never wrap around the right edge of the mask).                  *)
C13_Acceptance ==
    (BandDone /\ InContract) =>
        /\ l_found <=> Accepted(win_xleft_low, win_xleft_high)
        /\ l_found => LeftX = PeakCol(RegionCols(win_xleft_low, win_xleft_high))
        /\ r_found <=> Accepted(win_xright_low, win_xright_high)
        /\ r_found =>
               RightX = PeakCol(RegionCols(win_xright_low, win_xright_high))

\* a band rejected a side whose peak, off the low boundary of its region,
\* sums to exactly min_pixels
C13_DimWitness ==
    /\ BandDone
    /\ InContract
    /\ ~l_found
    /\ BandColSum(PeakCol(RegionCols(win_xleft_low, win_xleft_high)))
           = min_pixels
    /\ PeakCol(RegionCols(win_xleft_low, win_xleft_high)) # win_xleft_low

====
